---- MODULE Spec2Model ----
(***************************************************************************)
(* TPVToggle version updater (scripts/version_updater.py).                 *)
(*                                                                         *)
(* The three files the script owns (version.h, CHANGELOG.md, README.txt)   *)
(* are the state.  A file is a record [exists, text]; text is a string,    *)
(* handled character by character (Len, SubSeq, \o) so that positions,     *)
(* slices and pattern matches are those the Python code computes.          *)
(* Positions are 0-based as in Python.                                     *)
(*                                                                         *)
(* Python's None and "" are both falsy and the code only ever tests the    *)
(* title and the changelog entry for truthiness (lines 166, 184, 258), so  *)
(* an argument that was not given is the empty string here.                *)
(***************************************************************************)
EXTENDS Integers, Sequences, FiniteSets, TLC

VARIABLES
    version_h,   \* src/version.h
    changelog,   \* CHANGELOG.md
    readme,      \* build/README.txt
    last,        \* the last call: its arguments, what it returned, the files before it
    bumped,      \* the versions the bump commands returned, oldest first
    steps        \* calls left in this behaviour

vars == <<version_h, changelog, readme, last, bumped, steps>>

(***************************************************************************)
(* Bounds of the model.                                                    *)
(***************************************************************************)
\* Calls of get_current_version / bump_version in one behaviour.
MaxVersionCalls == 3
\* Calls of update_readme_txt in one behaviour.
MaxReadmeCalls == 3
\* Calls of update_changelog in one behaviour.
MaxChangelogCalls == 2
\* bump commands in one behaviour that runs only bump commands.
MaxBumps == 3
\* Commands (bump, update-changelog) in one behaviour of the whole program.
MaxCommands == 2

(***************************************************************************)
(* Python string primitives.  A value that is used more than once is      *)
(* passed on as a parameter of the next operator.                          *)
(***************************************************************************)
Min(S) == CHOOSE x \in S : \A y \in S : x <= y

\* The least element of S, d when S is empty.
MinOr(S, d) == IF S = {} THEN d ELSE Min(S)

\* str.isspace() characters that can occur in the model's texts.
Whitespace == {" ", "\t", "\n", "\r", "\f"}

\* [0-9]
Digits == {"0", "1", "2", "3", "4", "5", "6", "7", "8", "9"}

\* s[i], 0-based; "" past the end.
CharAt(s, i) == IF i >= 0 /\ i < Len(s) THEN SubSeq(s, i + 1, i + 1) ELSE ""

\* s[a:b] for a, b >= 0 (clamped to the length, as Python slices are).
Slice(s, a, b) ==
    IF a >= b \/ a >= Len(s) THEN ""
    ELSE SubSeq(s, a + 1, IF b > Len(s) THEN Len(s) ELSE b)

\* s[a:]
SliceFrom(s, a) == Slice(s, a, Len(s))

\* s.startswith(pat, i)
StartsAt(s, pat, i) ==
    /\ i >= 0
    /\ i + Len(pat) <= Len(s)
    /\ SubSeq(s, i + 1, i + Len(pat)) = pat

\* A start argument of str.find: a negative one counts from the end and
\* is clamped to 0.
FindStart(s, start) ==
    IF start >= 0 THEN start
    ELSE IF Len(s) + start < 0 THEN 0 ELSE Len(s) + start

\* s.find(pat, start): the lowest index >= start where pat occurs, else -1.
Find(s, pat, start) ==
    MinOr({i \in FindStart(s, start)..(Len(s) - Len(pat)) : StartsAt(s, pat, i)}, -1)

\* pat in s
Contains(s, pat) == Find(s, pat, 0) # -1

\* The first index j >= i with s[j] not in set (Len(s) if none): the end of
\* a greedy run of characters of the set starting at i.
SpanEnd(s, i, set) ==
    MinOr({j \in i..(Len(s) - 1) : CharAt(s, j) \notin set}, Len(s))

\* The first index j >= i with s[j] in set (Len(s) if none).
NextOf(s, i, set) ==
    MinOr({j \in i..(Len(s) - 1) : CharAt(s, j) \in set}, Len(s))

\* s.lstrip(), s.rstrip(), s.strip()
LStrip(s) == SliceFrom(s, SpanEnd(s, 0, Whitespace))

RStrip(s) ==
    Slice(s, 0, Min({j \in 0..Len(s) :
                        \A k \in j..(Len(s) - 1) : CharAt(s, k) \in Whitespace}))

Strip(s) == RStrip(LStrip(s))

\* s.split(sep) for a non-empty sep: the pieces between the occurrences;
\* p is where sep first occurs in s.
RECURSIVE Split(_, _)
SplitAt(s, sep, p) ==
    IF p = -1 THEN <<s>>
    ELSE <<Slice(s, 0, p)>> \o Split(SliceFrom(s, p + Len(sep)), sep)

Split(s, sep) == SplitAt(s, sep, Find(s, sep, 0))

\* sep.join(parts)
RECURSIVE Join(_, _)
Join(parts, sep) ==
    IF Len(parts) = 0 THEN ""
    ELSE IF Len(parts) = 1 THEN parts[1]
    ELSE parts[1] \o sep \o Join(Tail(parts), sep)

\* Line boundaries of str.splitlines() that can occur in the model's texts.
LineBreaks == {"\n", "\r", "\f"}

\* s.splitlines(): lines without their terminators; "\r\n" is one
\* terminator; no empty last line after a final terminator.  e is where
\* the first line of s ends.
RECURSIVE SplitLines(_)
SplitLinesAt(s, e) ==
    <<Slice(s, 0, e)>>
    \o SplitLines(SliceFrom(s, IF CharAt(s, e) = "\r" /\ CharAt(s, e + 1) = "\n"
                               THEN e + 2 ELSE e + 1))

SplitLines(s) ==
    IF s = "" THEN <<>> ELSE SplitLinesAt(s, NextOf(s, 0, LineBreaks))

\* Path.read_text(): text mode with universal newlines, "\r\n" and "\r"
\* are read as "\n".  p is where the first "\r" of s is.
RECURSIVE UniversalNewlines(_)
UniversalNewlinesAt(s, p) ==
    IF p = -1 THEN s
    ELSE Slice(s, 0, p) \o "\n"
         \o UniversalNewlines(SliceFrom(s, IF CharAt(s, p + 1) = "\n"
                                           THEN p + 2 ELSE p + 1))

UniversalNewlines(s) == UniversalNewlinesAt(s, Find(s, "\r", 0))

read_text(file) == UniversalNewlines(file.text)

\* Path.write_text(text): the whole file is replaced (POSIX: "\n" is
\* written as it is).
write_text(text) == [exists |-> TRUE, text |-> text]

\* A file that does not exist.
Absent == [exists |-> FALSE, text |-> ""]

\* int(digits) for a non-empty string of decimal digits.
DigitValue(c) ==
    CASE c = "0" -> 0 [] c = "1" -> 1 [] c = "2" -> 2 [] c = "3" -> 3
      [] c = "4" -> 4 [] c = "5" -> 5 [] c = "6" -> 6 [] c = "7" -> 7
      [] c = "8" -> 8 [] c = "9" -> 9

RECURSIVE ParseInt(_)
ParseInt(d) ==
    IF Len(d) = 1 THEN DigitValue(d)
    ELSE 10 * ParseInt(Slice(d, 0, Len(d) - 1)) + DigitValue(CharAt(d, Len(d) - 1))

\* str(n) for n >= 0, as an f-string formats it.
RECURSIVE FormatInt(_)
FormatInt(n) ==
    IF n < 10 THEN CharAt("0123456789", n)
    ELSE FormatInt(n \div 10) \o CharAt("0123456789", n % 10)

\* f"{major}.{minor}.{patch}"
FormatVersion(major, minor, patch) ==
    FormatInt(major) \o "." \o FormatInt(minor) \o "." \o FormatInt(patch)

(***************************************************************************)
(* Version Store: get_current_version and bump_version.                    *)
(***************************************************************************)
NoMatch == [found |-> FALSE, start |-> 0, end |-> 0, group |-> ""]

\* One attempt of  #define\s+<key>\s+(\d+)  at position i, piece by piece.
\* Every quantified run is followed by a character outside it, so the
\* greedy match is the only one.
\* (\d+): the digits run from d to e.
DefineDigits(s, i, d, e) ==
    IF e > d
    THEN [found |-> TRUE, start |-> i, end |-> e, group |-> Slice(s, d, e)]
    ELSE NoMatch

\* \s+ after the key: the whitespace runs from c to d.
DefineValue(s, i, c, d) ==
    IF d > c THEN DefineDigits(s, i, d, SpanEnd(s, d, Digits)) ELSE NoMatch

\* \s+ after "#define": the whitespace runs from a to b, the key follows.
DefineKey(s, key, i, a, b) ==
    IF b > a /\ StartsAt(s, key, b)
    THEN DefineValue(s, i, b + Len(key), SpanEnd(s, b + Len(key), Whitespace))
    ELSE NoMatch

DefineMatchAt(s, key, i) ==
    IF StartsAt(s, "#define", i)
    THEN DefineKey(s, key, i, i + Len("#define"),
                   SpanEnd(s, i + Len("#define"), Whitespace))
    ELSE NoMatch

\* re.search(r'#define\s+<key>\s+(\d+)', s): the leftmost match.
DefineFirst(s, key, at) ==
    IF at = -1 THEN NoMatch ELSE DefineMatchAt(s, key, at)

DefineSearch(s, key) ==
    DefineFirst(s, key,
                MinOr({i \in 0..Len(s) : DefineMatchAt(s, key, i).found}, -1))

\* re.sub(r'#define\s+<key>\s+\d+', f'#define <key> {n}', s): every
\* non-overlapping match, left to right, is replaced; m is the first.
RECURSIVE DefineSub(_, _, _)
DefineSubFrom(s, key, n, m) ==
    IF ~m.found THEN s
    ELSE Slice(s, 0, m.start) \o "#define " \o key \o " " \o FormatInt(n)
         \o DefineSub(SliceFrom(s, m.end), key, n)

DefineSub(s, key, n) == DefineSubFrom(s, key, n, DefineSearch(s, key))

\* Lines 43-51 of get_current_version.
VersionOf(major_match, minor_match, patch_match) ==
    IF ~(major_match.found /\ minor_match.found /\ patch_match.found)
    THEN [exit |-> TRUE, major |-> 0, minor |-> 0, patch |-> 0]
    ELSE [exit |-> FALSE,
          major |-> ParseInt(major_match.group),
          minor |-> ParseInt(minor_match.group),
          patch |-> ParseInt(patch_match.group)]

\* Lines 36-41 of get_current_version.
SearchVersion(version_h_text) ==
    VersionOf(DefineSearch(version_h_text, "VERSION_MAJOR"),
              DefineSearch(version_h_text, "VERSION_MINOR"),
              DefineSearch(version_h_text, "VERSION_PATCH"))

\* get_current_version(): exit is sys.exit(1) (file missing, or one of the
\* three declarations not found).
get_current_version(file) ==
    IF ~file.exists
    THEN [exit |-> TRUE, major |-> 0, minor |-> 0, patch |-> 0]
    ELSE SearchVersion(read_text(file))

\* BumpTriple with the reset of the patch number forgotten in a minor bump.
BumpTripleKeepPatch(cur, part) ==
    CASE part = "major" -> [major |-> cur.major + 1, minor |-> 0, patch |-> 0]
      [] part = "minor" -> [major |-> cur.major, minor |-> cur.minor + 1, patch |-> cur.patch]
      [] part = "patch" -> [major |-> cur.major, minor |-> cur.minor, patch |-> cur.patch + 1]

\* The version-part arithmetic of bump_version (lines 63-71).
BumpTriple(cur, part) ==
    CASE part = "major" -> [major |-> cur.major + 1, minor |-> 0, patch |-> 0]
      [] part = "minor" -> [major |-> cur.major, minor |-> cur.minor + 1, patch |-> 0]
      [] part = "patch" -> [major |-> cur.major, minor |-> cur.minor, patch |-> cur.patch + 1]

\* UpdateDefines with the substitution of VERSION_PATCH forgotten.
UpdateDefinesNoPatch(version_h_text, new) ==
    DefineSub(DefineSub(version_h_text, "VERSION_MAJOR", new.major),
              "VERSION_MINOR", new.minor)

\* Lines 77-94 of bump_version: the three substitutions.
UpdateDefines(version_h_text, new) ==
    DefineSub(DefineSub(DefineSub(version_h_text,
                                  "VERSION_MAJOR", new.major),
                        "VERSION_MINOR", new.minor),
              "VERSION_PATCH", new.patch)

\* Lines 76-101 of bump_version: the file is rewritten, the new version
\* returned as a string.
WriteVersion(file, new) ==
    [exit |-> FALSE,
     file |-> write_text(UpdateDefines(read_text(file), new)),
     ret  |-> FormatVersion(new.major, new.minor, new.patch)]

\* Lines 60-74 of bump_version; cur is what get_current_version returned.
\* exit: sys.exit(1) before anything is written.
BumpFrom(file, part, cur) ==
    IF cur.exit \/ part \notin {"major", "minor", "patch"}
    THEN [exit |-> TRUE, file |-> file, ret |-> ""]
    ELSE WriteVersion(file, BumpTriple(cur, part))

\* bump_version(part): the file after the call and the returned string.
bump_version(file, part) == BumpFrom(file, part, get_current_version(file))

(***************************************************************************)
(* Readme Patcher: update_readme_txt.                                      *)
(***************************************************************************)
\* Lines 114-118: the first line that starts with "Version " (line i, 0 if
\* there is none) is replaced, the loop breaks there.
ReplaceLine(lines, i, version) ==
    IF i = 0 THEN lines ELSE [lines EXCEPT ![i] = "Version " \o version]

PatchVersionLine(lines, version) ==
    ReplaceLine(lines,
                MinOr({i \in 1..Len(lines) : StartsAt(lines[i], "Version ", 0)}, 0),
                version)

\* update_readme_txt(version): the file after the call; wrote tells
\* whether write_text was called.
update_readme_txt(file, version) ==
    IF ~file.exists THEN [file |-> file, wrote |-> FALSE]
    ELSE [file |-> write_text(Join(PatchVersionLine(SplitLines(read_text(file)),
                                                    version), "\n")),
          wrote |-> TRUE]

(***************************************************************************)
(* Changelog Editor: update_changelog.                                     *)
(***************************************************************************)
Description ==
    "All notable changes to the TPVToggle mod will be documented in this file."

changelog_template == "# Changelog\n\n" \o Description \o "\n\n"

\* The release URL synthesized for a version without a link (line 219).
ReleaseUrl(version) ==
    "https://github.com/tkhquang/KCD2Tools/releases/tag/TPVToggle-v" \o version

\* Lines 150-159: parts is the content split at the description line.
Rebuild(parts) ==
    IF Len(parts) > 1 THEN changelog_template \o Strip(parts[2])
    ELSE changelog_template

\* Lines 146-162: the header of an existing file is fixed.
FixHeader(content) ==
    IF Contains(content, "# Changelog")
    THEN IF Contains(content, "All notable changes")
         THEN Rebuild(Split(content, Description))
         ELSE changelog_template \o Strip(Split(content, "# Changelog")[2])
    ELSE content

\* Lines 139-162: the content the rest of the function works on.
EnsureStructure(file) ==
    IF ~file.exists THEN changelog_template ELSE FixHeader(read_text(file))

\* Lines 165-167.
VersionHeader(version, title) ==
    IF title # "" THEN "## [" \o version \o "] - " \o title
    ELSE "## [" \o version \o "]"

\* Lines 175-181; header_end_pos is where the description line is found.
InsertAfter(content, header_end_pos) ==
    IF header_end_pos # -1
    THEN Find(content, "\n\n", header_end_pos) + 2
    ELSE Find(content, "\n\n", Find(content, "# Changelog", 0)) + 2

InsertPosition(content) == InsertAfter(content, Find(content, Description, 0))

\* Lines 187-194: the entry stripped, split at "\n", each line rstripped,
\* joined with "\n".
RECURSIVE RStripAll(_)
RStripAll(lines) ==
    IF Len(lines) = 0 THEN <<>>
    ELSE <<RStrip(Head(lines))>> \o RStripAll(Tail(lines))

FormatEntry(changelog_entry) ==
    Join(RStripAll(Split(Strip(changelog_entry), "\n")), "\n")

\* One attempt of  \[([0-9]+\.[0-9]+\.[0-9]+)\]: (.*)  at position i,
\* piece by piece; "." matches everything but "\n".  group is the version,
\* rest the URL.
NoLink == [found |-> FALSE, end |-> 0, group |-> "", rest |-> ""]

\* (.*): the rest of the line ends at e.
LinkRest(s, a, d, e) ==
    [found |-> TRUE, end |-> e,
     group |-> Slice(s, a, d), rest |-> Slice(s, d + 3, e)]

\* The third [0-9]+ runs from c + 1 to d; "]: " follows.
LinkClose(s, a, c, d) ==
    IF d > c + 1 /\ StartsAt(s, "]: ", d)
    THEN LinkRest(s, a, d, NextOf(s, d + 3, {"\n"}))
    ELSE NoLink

\* The second [0-9]+ runs from b + 1 to c; "." follows.
LinkPatch(s, a, b, c) ==
    IF c > b + 1 /\ CharAt(s, c) = "."
    THEN LinkClose(s, a, c, SpanEnd(s, c + 1, Digits))
    ELSE NoLink

\* The first [0-9]+ runs from a to b; "." follows.
LinkMinor(s, a, b) ==
    IF b > a /\ CharAt(s, b) = "."
    THEN LinkPatch(s, a, b, SpanEnd(s, b + 1, Digits))
    ELSE NoLink

LinkMatchAt(s, i) ==
    IF CharAt(s, i) = "["
    THEN LinkMinor(s, i + 1, SpanEnd(s, i + 1, Digits))
    ELSE NoLink

\* Lines 203-206: re.finditer(link_pattern, s), the (version, URL) pairs
\* of the non-overlapping matches from position `from` on, left to right.
RECURSIVE FindLinks(_, _)
FindLinksMatch(s, m) ==
    <<[version |-> m.group, url |-> m.rest]>> \o FindLinks(s, m.end)

FindLinksAt(s, at) ==
    IF at = -1 THEN <<>> ELSE FindLinksMatch(s, LinkMatchAt(s, at))

FindLinks(s, from) ==
    FindLinksAt(s, MinOr({i \in from..(Len(s) - 1) : LinkMatchAt(s, i).found}, -1))

\* Line 209: re.sub(r'\n\[[0-9]+\.[0-9]+\.[0-9]+\]: .*', '', s); at is
\* where the first match starts.
RECURSIVE RemoveLinks(_)
RemoveLinksAt(s, at) ==
    IF at = -1 THEN s
    ELSE Slice(s, 0, at) \o RemoveLinks(SliceFrom(s, LinkMatchAt(s, at + 1).end))

RemoveLinks(s) ==
    RemoveLinksAt(s, MinOr({i \in 0..(Len(s) - 1) :
                               CharAt(s, i) = "\n" /\ LinkMatchAt(s, i + 1).found}, -1))

\* Line 222: the sort key, [int(n) for n in version.split('.')].
RECURSIVE ParseAll(_)
ParseAll(parts) ==
    IF Len(parts) = 0 THEN <<>>
    ELSE <<ParseInt(Head(parts))>> \o ParseAll(Tail(parts))

VersionKey(version) == ParseAll(Split(version, "."))

\* Python's list comparison a < b.
KeyLess(a, b) ==
    \E k \in 1..Len(b) :
        /\ \A j \in 1..(k - 1) : j <= Len(a) /\ a[j] = b[j]
        /\ k - 1 <= Len(a)
        /\ (k > Len(a) \/ a[k] < b[k])

\* Line 222: list.sort(key=..., reverse=True) is stable, links of equal
\* key keep their order: x goes before the first link of a lower key (at
\* p), after the rest.
InsertLinkAt(sorted, x, p) ==
    SubSeq(sorted, 1, p - 1) \o <<x>> \o SubSeq(sorted, p, Len(sorted))

InsertLink(sorted, x) ==
    InsertLinkAt(sorted, x,
                 MinOr({i \in 1..Len(sorted) :
                           KeyLess(VersionKey(sorted[i].version),
                                   VersionKey(x.version))},
                       Len(sorted) + 1))

RECURSIVE SortLinks(_)
SortLinks(links) ==
    IF Len(links) = 0 THEN <<>>
    ELSE InsertLink(SortLinks(SubSeq(links, 1, Len(links) - 1)), links[Len(links)])

\* Lines 211-219: our link is appended unless the version has one.
WithOurLink(version_links, version) ==
    IF \E i \in 1..Len(version_links) : version_links[i].version = version
    THEN version_links
    ELSE Append(version_links, [version |-> version, url |-> ReleaseUrl(version)])

\* Lines 226-227.
RECURSIVE LinkLines(_)
LinkLines(links) ==
    IF Len(links) = 0 THEN ""
    ELSE "\n[" \o Head(links).version \o "]: " \o Head(links).url
         \o LinkLines(Tail(links))

\* Lines 202-228: the links of the text with the new section are taken
\* out, completed, sorted and written at the end.
RewriteLinks(updated_content, version) ==
    RStrip(RemoveLinks(updated_content)) \o "\n"
    \o LinkLines(SortLinks(WithOurLink(FindLinks(updated_content, 0), version)))
    \o "\n"

\* Line 200.
InsertSection(content, insert_position, new_version_section) ==
    Slice(content, 0, insert_position) \o new_version_section
    \o SliceFrom(content, insert_position)

\* Lines 196-228: the text written for a new section.
WithNewSection(content, version, title, changelog_entry) ==
    RewriteLinks(InsertSection(content, InsertPosition(content),
                               VersionHeader(version, title) \o "\n\n"
                               \o FormatEntry(changelog_entry) \o "\n\n"),
                 version)

\* Lines 169-233 of update_changelog; content is what lines 139-162 left.
UpdateContent(file, content, version, title, changelog_entry) ==
    IF Contains(content, "## [" \o version \o "]")
    THEN [file |-> file, wrote |-> FALSE]
    ELSE IF changelog_entry # ""
    THEN [file |-> write_text(WithNewSection(content, version, title,
                                             changelog_entry)),
          wrote |-> TRUE]
    ELSE [file |-> file, wrote |-> FALSE]

\* update_changelog(version, title, changelog_entry): the file after the
\* call; wrote tells whether write_text was called.
update_changelog(file, version, title, changelog_entry) ==
    UpdateContent(file, EnsureStructure(file), version, title, changelog_entry)

(***************************************************************************)
(* The inputs: file contents and command-line arguments.                   *)
(***************************************************************************)
File(text) == [exists |-> TRUE, text |-> text]

\* version.h: the regular layout, irregular whitespace and numbers about
\* to gain a digit, a declaration that occurs twice.
ValidVersionFiles ==
    { File("#define VERSION_MAJOR 1\n#define VERSION_MINOR 4\n#define VERSION_PATCH 9\n"),
      File("#define   VERSION_MAJOR\t0\n#define VERSION_MINOR  9\n#define\tVERSION_PATCH 99\n"),
      File("#pragma once\n#define VERSION_MAJOR 2\n#define VERSION_MINOR 0\n#define VERSION_PATCH 7\n// old\n#define VERSION_PATCH 3\n") }

\* No file, and a file without VERSION_PATCH.
InvalidVersionFiles ==
    { Absent,
      File("#define VERSION_MAJOR 1\n#define VERSION_MINOR 4\n") }

VersionFiles == ValidVersionFiles \cup InvalidVersionFiles

ReadmeFiles ==
    { Absent,
      File(""),
      File("TPVToggle\nVersion 0.1.0\nInstall: see below\n"),
      File("TPVToggle\nVersion 0.1.0\nVersion history\nVersion 0.0.9"),
      File("TPVToggle\n\nNo version here\n"),
      File("Version 0.1.0"),
      File("TPVToggle\r\nVersion 0.1.0\r\n") }

\* CHANGELOG.md: absent, empty, as the script writes it, and malformed
\* in the ways update_changelog repairs.
WellFormedChangelog ==
    File(changelog_template
         \o "## [1.9.0] - First\n\n- a\n\n[1.9.0]: https://example.org/1.9.0\n")

ChangelogFiles ==
    { Absent,
      File(""),
      WellFormedChangelog,
      \* links out of order
      File(changelog_template
           \o "## [1.10.0]\n\n- b\n\n## [1.9.0]\n\n- a\n\n[1.9.0]: u9\n[1.10.0]: u10\n"),
      \* a version with two links
      File(changelog_template
           \o "## [1.9.0]\n\n- a\n\n[1.9.0]: u\n[1.9.0]: w\n"),
      \* no title marker
      File("## [1.9.0]\n\n- a\n"),
      \* no title marker, description present
      File(Description \o "\n\n## [1.9.0]\n\n- a\n"),
      \* title, no description
      File("# Changelog\n\n## [1.9.0]\n\n- a\n\n[1.9.0]: u\n"),
      \* title, description cut short
      File("# Changelog\n\nAll notable changes\n\n## [1.9.0]\n\n- a\n"),
      \* description repeated
      File(changelog_template \o "## [1.10.0]\n\n- b\n\n" \o Description
           \o "\n\n## [1.9.0]\n\n- a\n") }

Parts == {"major", "minor", "patch"}

\* What --version can be ("" when not given).
Versions == {"1.9.0", "1.10.0", "2.0.0"}

\* What --title can be ("" when not given).
Titles == {"", "Fix"}

\* What --changelog can be: not given or empty, one line, lines with
\* trailing whitespace and a run of blank lines, whitespace only, a text
\* that quotes the description line.
Entries ==
    { "",
      "- x",
      "- a  \n\n\n- b\t",
      " \n",
      "see: " \o Description }

\* The changelog texts of the runs that only bump: with body text.
BumpEntries == {e \in Entries : Strip(e) # ""}

\* The version files of the runs that only bump.
BumpVersionFiles == {f \in ValidVersionFiles : ~Contains(f.text, "\t")}

(***************************************************************************)
(* The calls.                                                              *)
(***************************************************************************)
NoCall ==
    [op |-> "none", part |-> "", version |-> "", title |-> "", entry |-> "",
     ret |-> "", exit |-> FALSE, wrote_readme |-> FALSE, wrote_changelog |-> FALSE,
     pre_version_h |-> Absent, pre_changelog |-> Absent, pre_readme |-> Absent]

\* The record of a call made in the current state.
Call(op) ==
    [NoCall EXCEPT !.op = op, !.pre_version_h = version_h,
                   !.pre_changelog = changelog, !.pre_readme = readme]

\* get_current_version() called on its own.
CallGetCurrentVersion ==
    /\ steps > 0
    /\ \E v \in {get_current_version(version_h)} :
          last' = [Call("get_current_version") EXCEPT
                      !.exit = v.exit,
                      !.ret = IF v.exit THEN ""
                              ELSE FormatVersion(v.major, v.minor, v.patch)]
    /\ steps' = steps - 1
    /\ UNCHANGED <<version_h, changelog, readme, bumped>>

\* bump_version(part) called on its own.
CallBumpVersion(part) ==
    /\ steps > 0
    /\ \E r \in {bump_version(version_h, part)} :
          /\ version_h' = r.file
          /\ last' = [Call("bump_version") EXCEPT
                         !.part = part, !.exit = r.exit, !.ret = r.ret]
    /\ steps' = steps - 1
    /\ UNCHANGED <<changelog, readme, bumped>>

\* update_readme_txt(version) called on its own.
CallUpdateReadmeTxt(version) ==
    /\ steps > 0
    /\ \E r \in {update_readme_txt(readme, version)} :
          /\ readme' = r.file
          /\ last' = [Call("update_readme_txt") EXCEPT
                         !.version = version, !.wrote_readme = r.wrote]
    /\ steps' = steps - 1
    /\ UNCHANGED <<version_h, changelog, bumped>>

\* update_changelog(version, title, changelog_entry) called on its own.
CallUpdateChangelog(version, title, entry) ==
    /\ steps > 0
    /\ \E r \in {update_changelog(changelog, version, title, entry)} :
          /\ changelog' = r.file
          /\ last' = [Call("update_changelog") EXCEPT
                         !.version = version, !.title = title, !.entry = entry,
                         !.wrote_changelog = r.wrote]
    /\ steps' = steps - 1
    /\ UNCHANGED <<version_h, readme, bumped>>

\* main, lines 258-259: update_changelog is called only with a changelog
\* text.
MaybeUpdateChangelog(file, version, title, entry) ==
    IF entry # "" THEN update_changelog(file, version, title, entry)
    ELSE [file |-> file, wrote |-> FALSE]

\* main, lines 254-260: bump <part> [--title T] [--changelog TEXT].
\* sys.exit in bump_version ends the process before anything is written.
CmdBump(part, title, entry) ==
    /\ steps > 0
    /\ \E b \in {bump_version(version_h, part)} :
          IF b.exit
          THEN /\ last' = [Call("bump") EXCEPT
                              !.part = part, !.title = title, !.entry = entry,
                              !.exit = TRUE]
               /\ UNCHANGED <<version_h, readme, changelog, bumped>>
          ELSE \E r \in {update_readme_txt(readme, b.ret)},
                  c \in {MaybeUpdateChangelog(changelog, b.ret, title, entry)} :
                  /\ version_h' = b.file
                  /\ readme' = r.file
                  /\ changelog' = c.file
                  /\ bumped' = Append(bumped, b.ret)
                  /\ last' = [Call("bump") EXCEPT
                                 !.part = part, !.title = title, !.entry = entry,
                                 !.version = b.ret, !.ret = b.ret,
                                 !.wrote_readme = r.wrote,
                                 !.wrote_changelog = c.wrote]
    /\ steps' = steps - 1

\* main, lines 262-266: the version of update-changelog, the one given or
\* the current one.
CommandVersion(version_arg, cur) ==
    IF version_arg # "" THEN [exit |-> FALSE, version |-> version_arg]
    ELSE IF cur.exit THEN [exit |-> TRUE, version |-> ""]
    ELSE [exit |-> FALSE,
          version |-> FormatVersion(cur.major, cur.minor, cur.patch)]

\* main, lines 261-268: update-changelog [--version V] [--title T]
\* --changelog TEXT.
CmdUpdateChangelog(version_arg, title, entry) ==
    /\ steps > 0
    /\ \E v \in {CommandVersion(version_arg, get_current_version(version_h))} :
          IF v.exit
          THEN /\ last' = [Call("update-changelog") EXCEPT
                              !.title = title, !.entry = entry, !.exit = TRUE]
               /\ UNCHANGED changelog
          ELSE \E c \in {update_changelog(changelog, v.version, title, entry)} :
                  /\ changelog' = c.file
                  /\ last' = [Call("update-changelog") EXCEPT
                                 !.version = v.version, !.title = title,
                                 !.entry = entry, !.wrote_changelog = c.wrote]
    /\ steps' = steps - 1
    /\ UNCHANGED <<version_h, readme, bumped>>

(***************************************************************************)
(* Specifications.                                                         *)
(***************************************************************************)
\* The whole program: any files, any commands.
Init ==
    /\ version_h \in BumpVersionFiles \cup InvalidVersionFiles
    /\ changelog \in {Absent, WellFormedChangelog}
    /\ readme = File("TPVToggle\nVersion 0.1.0\n")
    /\ last = NoCall
    /\ bumped = <<>>
    /\ steps = MaxCommands

Next ==
    \/ \E part \in Parts, title \in Titles, entry \in Entries :
          CmdBump(part, title, entry)
    \/ \E version \in Versions \cup {""}, title \in Titles, entry \in Entries :
          CmdUpdateChangelog(version, title, entry)

Spec == Init /\ [][Next]_vars

\* The Version Store alone.
InitVersion ==
    /\ version_h \in VersionFiles
    /\ changelog = Absent
    /\ readme = Absent
    /\ last = NoCall
    /\ bumped = <<>>
    /\ steps = MaxVersionCalls

NextVersion ==
    \/ CallGetCurrentVersion
    \/ \E part \in Parts \cup {"build"} : CallBumpVersion(part)

SpecVersion == InitVersion /\ [][NextVersion]_vars

\* The Readme Patcher alone.
InitReadme ==
    /\ version_h = Absent
    /\ changelog = Absent
    /\ readme \in ReadmeFiles
    /\ last = NoCall
    /\ bumped = <<>>
    /\ steps = MaxReadmeCalls

NextReadme == \E version \in Versions : CallUpdateReadmeTxt(version)

SpecReadme == InitReadme /\ [][NextReadme]_vars

\* The Changelog Editor alone.
InitChangelog ==
    /\ version_h = Absent
    /\ changelog \in ChangelogFiles
    /\ readme = Absent
    /\ last = NoCall
    /\ bumped = <<>>
    /\ steps = MaxChangelogCalls

NextChangelog ==
    \E version \in Versions, title \in Titles, entry \in Entries :
        CallUpdateChangelog(version, title, entry)

SpecChangelog == InitChangelog /\ [][NextChangelog]_vars

\* bump commands with a changelog text, from a valid version file and no
\* changelog.
InitBump ==
    /\ version_h \in BumpVersionFiles
    /\ changelog = Absent
    /\ readme = File("TPVToggle\nVersion 0.1.0\n")
    /\ last = NoCall
    /\ bumped = <<>>
    /\ steps = MaxBumps

NextBump ==
    \E part \in Parts, title \in Titles, entry \in BumpEntries :
        CmdBump(part, title, entry)

SpecBump == InitBump /\ [][NextBump]_vars

(***************************************************************************)
(* What the properties speak of.                                           *)
(***************************************************************************)
\* The lines of a text, a final "\n" ending the last line.
TextLines(text) ==
    IF text = "" THEN <<>>
    ELSE IF CharAt(text, Len(text) - 1) = "\n"
    THEN Split(Slice(text, 0, Len(text) - 1), "\n")
    ELSE Split(text, "\n")

IsSectionHeader(line) == StartsAt(line, "## [", 0) /\ Contains(line, "]")

\* The version of a section header line.
HeaderVersion(line) == Slice(line, 4, Find(line, "]", 0))

\* The versions of the section headers of a text, top to bottom.
RECURSIVE HeaderVersions(_)
HeaderVersions(lines) ==
    IF Len(lines) = 0 THEN <<>>
    ELSE IF IsSectionHeader(Head(lines))
    THEN <<HeaderVersion(Head(lines))>> \o HeaderVersions(Tail(lines))
    ELSE HeaderVersions(Tail(lines))

SectionVersions(text) == HeaderVersions(TextLines(text))

\* The text has a section header for the version.
HasSection(text, version) ==
    \E i \in 1..Len(SectionVersions(text)) : SectionVersions(text)[i] = version

\* A line that is a link reference, [X.Y.Z]: URL.
IsLinkLine(line) == LinkMatchAt(line, 0).found

\* The versions of the link references that end a text, top to bottom.
RECURSIVE TrailingLinkVersions(_)
TrailingLinkVersions(lines) ==
    IF Len(lines) = 0 \/ ~IsLinkLine(lines[Len(lines)]) THEN <<>>
    ELSE Append(TrailingLinkVersions(SubSeq(lines, 1, Len(lines) - 1)),
                LinkMatchAt(lines[Len(lines)], 0).group)

\* Versions strictly descending by their numeric triples.
StrictlyDescending(versions) ==
    \A i \in 1..(Len(versions) - 1) :
        KeyLess(VersionKey(versions[i + 1]), VersionKey(versions[i]))

\* The lines that belong to the version sections of a changelog: from the
\* first section header on, without blank lines, link references and the
\* two preamble lines.
SectionLines(text) ==
    { TextLines(text)[i] : i \in
        { i \in 1..Len(TextLines(text)) :
            /\ \E h \in 1..i : IsSectionHeader(TextLines(text)[h])
            /\ Strip(TextLines(text)[i]) # ""
            /\ ~IsLinkLine(TextLines(text)[i])
            /\ TextLines(text)[i] \notin {"# Changelog", Description} } }

\* The lines of a text as a set.
LineSet(text) == {TextLines(text)[i] : i \in 1..Len(TextLines(text))}

\* A readme with the first line that begins with "Version " replaced and
\* every other byte kept; at is where that line starts, -1 without one.
ReadmeWith(text, version, at) ==
    IF at = -1 THEN text
    ELSE Slice(text, 0, at) \o "Version " \o version
         \o SliceFrom(text, NextOf(text, at, {"\n"}))

ExpectedReadme(text, version) ==
    ReadmeWith(text, version,
               MinOr({i \in 0..(Len(text) - 1) :
                         /\ i = 0 \/ CharAt(text, i - 1) = "\n"
                         /\ StartsAt(text, "Version ", i)}, -1))

\* Lines with every run of blank lines reduced to one blank line.
RECURSIVE CollapseBlank(_)
CollapseBlank(lines) ==
    IF Len(lines) <= 1 THEN lines
    ELSE IF lines[1] = "" /\ lines[2] = "" THEN CollapseBlank(Tail(lines))
    ELSE <<lines[1]>> \o CollapseBlank(Tail(lines))

\* The entry with trailing whitespace trimmed on every line and runs of
\* blank lines collapsed.
ExpectedBody(entry) == Join(CollapseBlank(RStripAll(Split(entry, "\n"))), "\n")

\* The triple a version file declares.
Declared(file) ==
    <<get_current_version(file).major, get_current_version(file).minor,
      get_current_version(file).patch>>

BumpReturned == last.op = "bump_version" /\ ~last.exit

ChangelogWritten ==
    last.op = "update_changelog" /\ last.wrote_changelog

(***************************************************************************)
(* Properties.                                                             *)
(***************************************************************************)
\* C1: bump_version("patch") returns (major, minor, patch+1), "minor"
\* (major, minor+1, 0), "major" (major+1, 0, 0) of the triple the file
\* declared, as the string "X.Y.Z".
C1_BumpYieldsTriple ==
    BumpReturned =>
        \E pre \in {Declared(last.pre_version_h)} :
            /\ last.part = "patch" =>
                  VersionKey(last.ret) = <<pre[1], pre[2], pre[3] + 1>>
            /\ last.part = "minor" =>
                  VersionKey(last.ret) = <<pre[1], pre[2] + 1, 0>>
            /\ last.part = "major" =>
                  VersionKey(last.ret) = <<pre[1] + 1, 0, 0>>
            /\ last.ret = FormatVersion(VersionKey(last.ret)[1],
                                        VersionKey(last.ret)[2],
                                        VersionKey(last.ret)[3])

\* C1 witness: the file declares 1, 4, 9 and bump_version("minor") has
\* returned "1.5.0".
C1_Witness ==
    /\ BumpReturned
    /\ last.part = "minor"
    /\ Declared(last.pre_version_h) = <<1, 4, 9>>
    /\ last.ret = "1.5.0"

\* C9: get_current_version() right after bump_version(part) returns the
\* triple bump_version returned, also when a declaration occurs twice or
\* is written with irregular whitespace, and after any sequence of bumps.
C9_ReadAfterBump ==
    BumpReturned =>
        /\ ~get_current_version(version_h).exit
        /\ Declared(version_h) = VersionKey(last.ret)

\* C9 witness: the third bump in a row, of a file that declares
\* VERSION_PATCH twice, has returned.
C9_Witness ==
    /\ BumpReturned
    /\ steps = 0
    /\ last.part = "minor"
    /\ Contains(last.pre_version_h.text, "// old")
    /\ Declared(last.pre_version_h)[3] > 0

\* C2: a changelog that has a section header for the version is left as
\* it is by update_changelog for that version, nothing is written.
C2_SectionPresentNoWrite ==
    ( /\ last.op = "update_changelog"
      /\ last.pre_changelog.exists
      /\ HasSection(last.pre_changelog.text, last.version) )
    => (~last.wrote_changelog /\ changelog = last.pre_changelog)

\* C3: after an update_changelog that writes, the link references that
\* end the document are strictly descending by numeric version, one per
\* version.
C3_LinksStrictlyDescending ==
    ChangelogWritten =>
        StrictlyDescending(TrailingLinkVersions(TextLines(changelog.text)))

\* C4: update_readme_txt changes only the first line that begins with
\* "Version "; every other byte of the file is as it was.
C4_OnlyVersionLineChanges ==
    (last.op = "update_readme_txt" /\ last.pre_readme.exists) =>
        readme.text = ExpectedReadme(last.pre_readme.text, last.version)

\* C5: for an existing changelog without the version, the new section is
\* spliced in right after the description line's blank line, its header
\* is the first section header of the written document.
C5_NewSectionFirst ==
    ( /\ ChangelogWritten
      /\ last.pre_changelog.exists
      /\ ~HasSection(last.pre_changelog.text, last.version) )
    => /\ Contains(changelog.text,
                   Description \o "\n\n" \o VersionHeader(last.version, last.title) \o "\n")
       /\ SectionVersions(changelog.text) # <<>>
       /\ SectionVersions(changelog.text)[1] = last.version

\* C6: for an existing changelog, the written document begins with the
\* fixed preamble and every section header and body line of the file is
\* still there after it.
C6_PreambleAndSectionsKept ==
    (ChangelogWritten /\ last.pre_changelog.exists) =>
        /\ StartsAt(changelog.text, changelog_template, 0)
        /\ SectionLines(last.pre_changelog.text)
              \subseteq LineSet(SliceFrom(changelog.text, Len(changelog_template)))

\* C7: update_changelog with an entry without body text (empty or only
\* whitespace) writes nothing and leaves the file as it was.
C7_BlankEntryNoWrite ==
    (last.op = "update_changelog" /\ Strip(last.entry) = "") =>
        (~last.wrote_changelog /\ changelog = last.pre_changelog)

\* C8: the body written for a new section is the entry with trailing
\* whitespace trimmed on every line and every run of blank lines
\* collapsed to one blank line.
C8_BodyNormalized ==
    (ChangelogWritten /\ Strip(last.entry) # "") =>
        Contains(changelog.text,
                 VersionHeader(last.version, last.title) \o "\n\n"
                 \o ExpectedBody(last.entry) \o "\n")

\* C10: from a valid version file and no changelog, after bump commands
\* with a changelog text the changelog has exactly one section per bumped
\* version, the headers strictly descending top to bottom, the topmost
\* the version the version file declares.
C10_OneSectionPerBump ==
    (bumped # <<>>) =>
        /\ changelog.exists
        /\ Len(SectionVersions(changelog.text)) = Len(bumped)
        /\ \A i \in 1..Len(bumped) :
              \E j \in 1..Len(SectionVersions(changelog.text)) :
                  SectionVersions(changelog.text)[j] = bumped[i]
        /\ StrictlyDescending(SectionVersions(changelog.text))
        /\ VersionKey(SectionVersions(changelog.text)[1]) = Declared(version_h)

====
